---------------------------- MODULE Spec2Model ----------------------------
(***************************************************************************)
(* Model of src/app.py: the FRS 102 inventory valuation tool, a Streamlit  *)
(* script that is re-executed top to bottom after every widget change.     *)
(*                                                                         *)
(* Python's float is an IEEE-754 binary64 number.  The arithmetic of the   *)
(* script is modelled bit-exactly: a float is sign * man * 2^exp with an   *)
(* arbitrary-precision odd significand, and every operation rounds its     *)
(* exact result to 53 significant bits, ties to even.  Exponent overflow   *)
(* and subnormals are out of reach of the values used here and are not     *)
(* modelled.  Negative zero cannot arise from the script's operations on   *)
(* non-negative inputs and is not modelled either.                         *)
(***************************************************************************)
EXTENDS Integers, Sequences, FiniteSets, TLC

(***************************************************************************)
(* Bind(F, v) is F(v) with v evaluated once, before F: Python evaluates    *)
(* the operands of an operation and the right-hand side of an assignment   *)
(* once, where a TLA+ definition stands for its text.                      *)
(***************************************************************************)
Bind(F(_), v) == CHOOSE r \in {F(x) : x \in {v}} : TRUE
Bind2(F(_, _), v, w) == CHOOSE r \in {F(x, y) : x \in {v}, y \in {w}} : TRUE

(***************************************************************************)
(* Arbitrary-precision naturals: little-endian sequences of 15-bit limbs   *)
(* without leading zero limbs (TLC's own integers are 32 bits wide).       *)
(***************************************************************************)
Base == 2^15

RECURSIVE BigFromNat(_)
BigFromNat(n) == IF n = 0 THEN << >> ELSE <<n % Base>> \o BigFromNat(n \div Base)

RECURSIVE BigNorm(_)
BigNorm(a) ==
    IF a = << >> THEN a
    ELSE IF a[Len(a)] = 0 THEN BigNorm(SubSeq(a, 1, Len(a) - 1)) ELSE a

Limb(a, i) == IF i <= Len(a) THEN a[i] ELSE 0

RECURSIVE BigAddFrom(_, _, _, _)
BigAddFrom(a, b, i, carry) ==
    IF i > Len(a) /\ i > Len(b)
    THEN IF carry = 0 THEN << >> ELSE <<carry>>
    ELSE Bind(LAMBDA s : <<s % Base>> \o BigAddFrom(a, b, i + 1, s \div Base),
              Limb(a, i) + Limb(b, i) + carry)

BigAdd(a, b) == Bind2(LAMBDA x, y : BigAddFrom(x, y, 1, 0), a, b)

\* a - b for a >= b
RECURSIVE BigSubFrom(_, _, _, _)
BigSubFrom(a, b, i, borrow) ==
    IF i > Len(a) THEN << >>
    ELSE Bind(LAMBDA d : IF d < 0 THEN <<d + Base>> \o BigSubFrom(a, b, i + 1, 1)
                                  ELSE <<d>> \o BigSubFrom(a, b, i + 1, 0),
              Limb(a, i) - Limb(b, i) - borrow)

BigSub(a, b) == Bind2(LAMBDA x, y : BigNorm(BigSubFrom(x, y, 1, 0)), a, b)

\* -1, 0, 1 as a < b, a = b, a > b
RECURSIVE BigCmpFrom(_, _, _)
BigCmpFrom(a, b, i) ==
    IF i = 0 THEN 0
    ELSE IF a[i] < b[i] THEN -1
    ELSE IF a[i] > b[i] THEN 1
    ELSE BigCmpFrom(a, b, i - 1)

BigCmp(a, b) ==
    Bind2(LAMBDA x, y : IF Len(x) < Len(y) THEN -1
                        ELSE IF Len(x) > Len(y) THEN 1
                        ELSE BigCmpFrom(x, y, Len(x)),
          a, b)

\* a * k for 0 < k < Base
RECURSIVE BigMulSmallFrom(_, _, _, _)
BigMulSmallFrom(a, k, i, carry) ==
    IF i > Len(a)
    THEN IF carry = 0 THEN << >> ELSE <<carry>>
    ELSE Bind(LAMBDA p : <<p % Base>> \o BigMulSmallFrom(a, k, i + 1, p \div Base),
              a[i] * k + carry)

BigMulSmall(a, k) ==
    Bind2(LAMBDA x, y : IF y = 0 THEN << >> ELSE BigMulSmallFrom(x, y, 1, 0), a, k)

ZeroLimbs(n) == [i \in 1..n |-> 0]

RECURSIVE BigMulFrom(_, _, _)
BigMulFrom(a, b, i) ==
    IF i > Len(b) THEN << >>
    ELSE BigAdd(IF b[i] = 0 THEN << >> ELSE ZeroLimbs(i - 1) \o BigMulSmall(a, b[i]),
                BigMulFrom(a, b, i + 1))

BigMul(a, b) ==
    Bind2(LAMBDA x, y : IF x = << >> \/ y = << >> THEN << >> ELSE BigMulFrom(x, y, 1),
          a, b)

\* number of bits of n >= 0
RECURSIVE SmallBits(_)
SmallBits(n) == IF n = 0 THEN 0 ELSE 1 + SmallBits(n \div 2)

BitLen(a) ==
    Bind(LAMBDA x : IF x = << >> THEN 0 ELSE 15 * (Len(x) - 1) + SmallBits(x[Len(x)]), a)

\* a * 2^n
BigShl(a, n) ==
    Bind2(LAMBDA x, k : IF x = << >> THEN x
                        ELSE ZeroLimbs(k \div 15) \o BigMulSmall(x, 2^(k % 15)),
          a, n)

\* quotient and remainder of a by 0 < d <= 2^16, from limb i down
RECURSIVE BigDivSmallFrom(_, _, _, _)
BigDivSmallFrom(a, d, i, r) ==
    IF i = 0 THEN [q |-> << >>, r |-> r]
    ELSE Bind(LAMBDA cur :
              Bind(LAMBDA rest : [q |-> Append(rest.q, cur \div d), r |-> rest.r],
                   BigDivSmallFrom(a, d, i - 1, cur % d)),
              r * Base + a[i])

BigDivSmall(a, d) ==
    Bind2(LAMBDA x, y :
          Bind(LAMBDA res : [q |-> BigNorm(res.q), r |-> res.r],
               BigDivSmallFrom(x, y, Len(x), 0)),
          a, d)

\* floor(a / 2^n), and whether any of the n dropped bits was set
BigShr(a, n) ==
    Bind2(LAMBDA x, k :
          Bind2(LAMBDA low, res :
                [q |-> res.q,
                 sticky |-> (res.r # 0) \/ (\E i \in DOMAIN low : low[i] # 0)],
                SubSeq(x, 1, IF k \div 15 < Len(x) THEN k \div 15 ELSE Len(x)),
                BigDivSmall(SubSeq(x, k \div 15 + 1, Len(x)), 2^(k % 15))),
          a, n)

BigIsOdd(a) == Bind(LAMBDA x : x # << >> /\ x[1] % 2 = 1, a)

RECURSIVE SmallTrailingZeros(_)
SmallTrailingZeros(n) == IF n % 2 = 1 THEN 0 ELSE 1 + SmallTrailingZeros(n \div 2)

\* number of trailing zero bits of a # 0, from limb i up
RECURSIVE BigTrailingZeros(_, _)
BigTrailingZeros(a, i) ==
    IF a[i] = 0 THEN 15 + BigTrailingZeros(a, i + 1) ELSE SmallTrailingZeros(a[i])

(***************************************************************************)
(* Python floats.                                                          *)
(***************************************************************************)
Precision == 53

FZero == [sign |-> 0, man |-> << >>, exp |-> 0]

\* the float sign * m * 2^e for m of at most Precision bits
FNorm(s, m, e) ==
    Bind(LAMBDA x :
         IF x = << >> THEN FZero
         ELSE Bind(LAMBDA tz : [sign |-> s, man |-> BigShr(x, tz).q, exp |-> e + tz],
                   BigTrailingZeros(x, 1)),
         m)

\* m, of more than Precision bits, and a fraction that is not 0 exactly if
\* sticky, rounded to Precision bits: to nearest, ties to even
RoundBits(s, m, e, sticky, sh) ==
    Bind(LAMBDA r1 :
         Bind(LAMBDA q :
              IF BigIsOdd(r1.q) /\ (r1.sticky \/ sticky \/ BigIsOdd(q))
              THEN FNorm(s, BigAdd(q, <<1>>), e + sh)
              ELSE FNorm(s, q, e + sh),
              BigShr(r1.q, 1).q),
         BigShr(m, sh - 1))

\* sign * (m + f) * 2^e as a float, where 0 <= f < 1 and f # 0 exactly if sticky
FRound(s, m, e, sticky) ==
    Bind2(LAMBDA x, len : IF len <= Precision THEN FNorm(s, x, e)
                          ELSE RoundBits(s, x, e, sticky, len - Precision),
          m, BitLen(m))

\* float(n) for a Python int n
FromInt(n) == IF n < 0 THEN FRound(1, BigFromNat(-n), 0, FALSE)
                       ELSE FRound(0, BigFromNat(n), 0, FALSE)

FIsZero(x) == x.man = << >>
FIsNeg(x) == x.man # << >> /\ x.sign = 1
FIsPos(x) == x.man # << >> /\ x.sign = 0

FNeg(x) == Bind(LAMBDA a : IF FIsZero(a) THEN a ELSE [a EXCEPT !.sign = 1 - a.sign], x)

FMul(x, y) ==
    Bind2(LAMBDA a, b :
          IF FIsZero(a) \/ FIsZero(b) THEN FZero
          ELSE FRound((a.sign + b.sign) % 2, BigMul(a.man, b.man), a.exp + b.exp, FALSE),
          x, y)

\* a + b for non-zero floats whose significands mx and my are scaled to the
\* common exponent e
AddAligned(a, b, e, mx, my) ==
    IF a.sign = b.sign THEN FRound(a.sign, BigAdd(mx, my), e, FALSE)
    ELSE Bind(LAMBDA c : IF c = 0 THEN FZero
                         ELSE IF c > 0 THEN FRound(a.sign, BigSub(mx, my), e, FALSE)
                         ELSE FRound(b.sign, BigSub(my, mx), e, FALSE),
              BigCmp(mx, my))

FAdd(x, y) ==
    Bind2(LAMBDA a, b :
          IF FIsZero(a) THEN b
          ELSE IF FIsZero(b) THEN a
          ELSE Bind(LAMBDA e :
                    Bind2(LAMBDA mx, my : AddAligned(a, b, e, mx, my),
                          BigShl(a.man, a.exp - e), BigShl(b.man, b.exp - e)),
                    IF a.exp < b.exp THEN a.exp ELSE b.exp),
          x, y)

FSub(x, y) == FAdd(x, FNeg(y))

\* mutant: floor division (a // b) in place of true division
IntFloorDiv(a, b) == FromInt(a \div b)

\* the correctly rounded quotient a / b of Python ints a >= 0 and 0 < b <= 2^16
IntTrueDiv(a, b) ==
    IF a = 0 THEN FZero
    ELSE Bind(LAMBDA k :
              Bind(LAMBDA res : FRound(0, res.q, -k, res.r # 0),
                   BigDivSmall(BigShl(BigFromNat(a), k), b)),
              Precision + 2 + SmallBits(b))

(***************************************************************************)
(* Values of the script other than floats.                                 *)
(***************************************************************************)
\* a name the run has not assigned
Unbound == [unbound |-> TRUE]

\* the exception int / int raises for a zero divisor
ZeroDivisionError == [raised |-> "ZeroDivisionError"]

\* mutant: a zero divisor gives a zero rate and raises nothing
TrueDivZeroRate(a, b) == IF b = 0 THEN FZero ELSE IntTrueDiv(a, b)

\* Python's a / b on ints
TrueDiv(a, b) == IF b = 0 THEN ZeroDivisionError ELSE IntTrueDiv(a, b)

\* the float a number_input returns for the decimal text n / scale
Decimal(n, scale) == IntTrueDiv(n, scale)

(***************************************************************************)
(* The widgets: their defaults and the values the model enters in them.    *)
(***************************************************************************)
MaxOverheads == 1
MaxActivity == 3

ActivityTypes == {"Machine Hours", "Direct Labour Hours", "Units Produced"}

DirectMaterialsMin == Decimal(0, 1)
DirectLabourMin == Decimal(0, 1)
BudgetedOhMin == 0
BudgetedActivityMin == 1
ActivityPerUnitMin == Decimal(0, 1)
ClosingInventoryMin == 0
ActualOhMin == 0
ActualActivityMin == 0

\* x >= lo on floats
FGeq(x, lo) == ~FIsNeg(FSub(x, lo))

DirectMaterialsValues ==
    {x \in {Decimal(1000, 100), Decimal(1, 100)} : FGeq(x, DirectMaterialsMin)}
DirectLabourValues == {x \in {Decimal(1500, 100)} : FGeq(x, DirectLabourMin)}
BudgetedOhValues == {v \in (0..MaxOverheads) \cup {120000} : v >= BudgetedOhMin}
\* what the user may type before the widget applies its min_value
BudgetedActivityEntries == (0..MaxActivity) \cup {30000}
\* mutant: the widget does not apply its min_value
BudgetedActivityValuesNoMin == BudgetedActivityEntries

BudgetedActivityValues == {v \in BudgetedActivityEntries : v >= BudgetedActivityMin}
ActivityPerUnitValues ==
    {x \in {Decimal(15, 10), Decimal(1, 10)} : FGeq(x, ActivityPerUnitMin)}
ClosingInventoryValues == {v \in {0, 1000} : v >= ClosingInventoryMin}
ActualOhValues == {v \in {0, 125000} : v >= ActualOhMin}
ActualActivityValues == {v \in {0, 31000} : v >= ActualActivityMin}

Defaults ==
    [direct_materials  |-> Decimal(1000, 100),
     direct_labour     |-> Decimal(1500, 100),
     budgeted_oh       |-> 120000,
     budgeted_activity |-> 30000,
     activity_type     |-> "Machine Hours",
     activity_per_unit |-> Decimal(15, 10),
     closing_inventory |-> 1000,
     actual_oh         |-> 125000,
     actual_activity   |-> 31000]

(***************************************************************************)
(* The script.                                                             *)
(***************************************************************************)
PrimeCost(direct_materials, direct_labour) == FAdd(direct_materials, direct_labour)

Oar(budgeted_oh, budgeted_activity) == TrueDiv(budgeted_oh, budgeted_activity)

\* mutant: the rate is added to the activity per unit
AbsorbedOhPerUnitSum(oar, activity_per_unit) == FAdd(oar, activity_per_unit)

AbsorbedOhPerUnit(oar, activity_per_unit) == FMul(oar, activity_per_unit)

\* mutant: the absorbed overhead is taken off the prime cost
TotalFullCostPerUnitLess(prime_cost, absorbed_oh_per_unit) ==
    FSub(prime_cost, absorbed_oh_per_unit)

TotalFullCostPerUnit(prime_cost, absorbed_oh_per_unit) ==
    FAdd(prime_cost, absorbed_oh_per_unit)

TotalInventoryValue(closing_inventory, total_full_cost_per_unit) ==
    FMul(FromInt(closing_inventory), total_full_cost_per_unit)

AbsorbedOhTotal(actual_activity, oar) == FMul(FromInt(actual_activity), oar)

\* mutant: the actual overheads are not deducted
OverUnderAbsorptionGross(absorbed_oh_total, actual_oh) ==
    absorbed_oh_total

OverUnderAbsorption(absorbed_oh_total, actual_oh) ==
    FSub(absorbed_oh_total, FromInt(actual_oh))

\* mutant: a zero variance is reported as over-absorbed
AbsorptionMessageGeq(over_under_absorption) ==
    IF FIsNeg(over_under_absorption) THEN "under_absorbed" ELSE "over_absorbed"

\* the element the if / elif / else of the audit check renders
AbsorptionMessage(over_under_absorption) ==
    IF FIsPos(over_under_absorption) THEN "over_absorbed"
    ELSE IF FIsNeg(over_under_absorption) THEN "under_absorbed"
    ELSE "no_over_under"

AbsorptionMessages == {"over_absorbed", "under_absorbed", "no_over_under"}

\* the figures rendered inside the try block
DownstreamElements ==
    {"oar_metric", "full_cost_metric", "inventory_value"} \cup AbsorptionMessages

\* the names assigned inside the try block
DownstreamNames ==
    {"oar", "absorbed_oh_per_unit", "total_full_cost_per_unit",
     "total_inventory_value", "absorbed_oh_total", "over_under_absorption"}

\* mutant: the except branch falls back to a zero rate and renders it
ExceptBranchZeroRate(prime_cost) ==
    [ns   |-> [prime_cost               |-> prime_cost,
               oar                      |-> FZero,
               absorbed_oh_per_unit     |-> Unbound,
               total_full_cost_per_unit |-> Unbound,
               total_inventory_value    |-> Unbound,
               absorbed_oh_total        |-> Unbound,
               over_under_absorption    |-> Unbound],
     page |-> {"prime_cost_metric", "oar_metric", "validation_error"}]

\* the except branch: nothing of the try block was assigned or rendered
ExceptBranch(prime_cost) ==
    [ns   |-> [prime_cost               |-> prime_cost,
               oar                      |-> Unbound,
               absorbed_oh_per_unit     |-> Unbound,
               total_full_cost_per_unit |-> Unbound,
               total_inventory_value    |-> Unbound,
               absorbed_oh_total        |-> Unbound,
               over_under_absorption    |-> Unbound],
     page |-> {"prime_cost_metric", "validation_error"}]

\* the end of the try block: every name is assigned, every figure rendered
TryBlockEnd(prime_cost, oar, absorbed_oh_per_unit, total_full_cost_per_unit, total_inventory_value, absorbed_oh_total, over_under_absorption) ==
    [ns   |-> [prime_cost               |-> prime_cost,
               oar                      |-> oar,
               absorbed_oh_per_unit     |-> absorbed_oh_per_unit,
               total_full_cost_per_unit |-> total_full_cost_per_unit,
               total_inventory_value    |-> total_inventory_value,
               absorbed_oh_total        |-> absorbed_oh_total,
               over_under_absorption    |-> over_under_absorption],
     page |-> {"prime_cost_metric", "oar_metric", "full_cost_metric",
               "inventory_value", AbsorptionMessage(over_under_absorption)}]

\* the try block after the division gave oar: its assignments, in order
TryBlock(w, prime_cost, oar) ==
    Bind(LAMBDA absorbed_oh_per_unit :
    Bind(LAMBDA total_full_cost_per_unit :
    Bind(LAMBDA total_inventory_value :
    Bind(LAMBDA absorbed_oh_total :
    Bind(LAMBDA over_under_absorption :
         TryBlockEnd(prime_cost, oar, absorbed_oh_per_unit, total_full_cost_per_unit,
                     total_inventory_value, absorbed_oh_total, over_under_absorption),
         OverUnderAbsorption(absorbed_oh_total, w.actual_oh)),
         AbsorbedOhTotal(w.actual_activity, oar)),
         TotalInventoryValue(w.closing_inventory, total_full_cost_per_unit)),
         TotalFullCostPerUnit(prime_cost, absorbed_oh_per_unit)),
         AbsorbedOhPerUnit(oar, w.activity_per_unit))

\* one execution of the script, top to bottom, on the widget values w
RunScript(w) ==
    Bind(LAMBDA v :
         Bind2(LAMBDA prime_cost, oar :
               IF oar = ZeroDivisionError THEN ExceptBranch(prime_cost)
               ELSE TryBlock(v, prime_cost, oar),
               PrimeCost(v.direct_materials, v.direct_labour),
               Oar(v.budgeted_oh, v.budgeted_activity)),
         w)

(***************************************************************************)
(* The variance decomposition of the calculation contract                  *)
(* (computeVarianceDecomposition), on the budgeted and actual overheads    *)
(* and units.                                                              *)
(***************************************************************************)
DivisionByZero == [raised |-> "DivisionByZero"]

\* mutant: a zero variance is tagged adverse
VarianceTagStrict(v) == IF FIsPos(v) THEN "favourable" ELSE "adverse"

\* favourable for a variance >= 0, adverse for one < 0
VarianceTag(v) == IF FIsNeg(v) THEN "adverse" ELSE "favourable"

ExpenditureVariance(budgetedOH, actualOH) == FromInt(budgetedOH - actualOH)

VolumeVariance(actualUnits, budgetedUnits, oarPerUnit) ==
    FMul(FromInt(actualUnits - budgetedUnits), oarPerUnit)

computeVarianceDecomposition(budgetedOH, actualOH, budgetedUnits, actualUnits) ==
    Bind(LAMBDA oarPerUnit :
         IF oarPerUnit = ZeroDivisionError THEN DivisionByZero
         ELSE Bind2(LAMBDA ev, vv : [expenditureVariance |-> ev,
                                     volumeVariance      |-> vv,
                                     expenditureTag      |-> VarianceTag(ev),
                                     volumeTag           |-> VarianceTag(vv)],
                    ExpenditureVariance(budgetedOH, actualOH),
                    VolumeVariance(actualUnits, budgetedUnits, oarPerUnit)),
         TrueDiv(budgetedOH, budgetedUnits))

(***************************************************************************)
(* State: the values held by the widgets (Streamlit's session), the names  *)
(* the last run of the script assigned and the elements it rendered; the   *)
(* result of the variance decomposition; and a history variable, snap,     *)
(* that keeps one earlier evaluation (its inputs and its outputs).         *)
(***************************************************************************)
VARIABLES widgets, ns, page, decomposition, snap

vars == <<widgets, ns, page, decomposition, snap>>
aux == <<decomposition, snap>>

\* mutant: the rate of the previous run is kept while the budgeted overheads
\* are unchanged, instead of being recomputed by every run
RerunCachedOar(w) ==
    \E run \in {RunScript(w)} :
        /\ widgets' = w
        /\ ns' = IF ns.oar # Unbound /\ w.budgeted_oh = widgets.budgeted_oh
                 THEN [run.ns EXCEPT !.oar = ns.oar]
                 ELSE run.ns
        /\ page' = run.page

\* the script is executed on the widget values w
Rerun(w) ==
    \E run \in {RunScript(w)} :
        /\ widgets' = w
        /\ ns' = run.ns
        /\ page' = run.page

\* the first run of a session: every widget holds its default
Init ==
    /\ \E run \in {RunScript(Defaults)} :
           /\ widgets = Defaults
           /\ ns = run.ns
           /\ page = run.page
    /\ decomposition = Unbound
    /\ snap = Unbound

SetDirectMaterials ==
    \E v \in DirectMaterialsValues : Rerun([widgets EXCEPT !.direct_materials = v])

SetDirectLabour ==
    \E v \in DirectLabourValues : Rerun([widgets EXCEPT !.direct_labour = v])

SetBudgetedOh ==
    \E v \in BudgetedOhValues : Rerun([widgets EXCEPT !.budgeted_oh = v])

SetBudgetedActivity ==
    \E v \in BudgetedActivityValues : Rerun([widgets EXCEPT !.budgeted_activity = v])

\* The labels of activity_per_unit and actual_activity contain the activity
\* type and the widgets have no key: under another type they are new
\* widgets, which start from their defaults.
SelectActivityType ==
    \E t \in ActivityTypes \ {widgets.activity_type} :
        Rerun([widgets EXCEPT !.activity_type     = t,
                              !.activity_per_unit = Defaults.activity_per_unit,
                              !.actual_activity   = Defaults.actual_activity])

SetActivityPerUnit ==
    \E v \in ActivityPerUnitValues : Rerun([widgets EXCEPT !.activity_per_unit = v])

SetClosingInventory ==
    \E v \in ClosingInventoryValues : Rerun([widgets EXCEPT !.closing_inventory = v])

SetActualOh ==
    \E v \in ActualOhValues : Rerun([widgets EXCEPT !.actual_oh = v])

SetActualActivity ==
    \E v \in ActualActivityValues : Rerun([widgets EXCEPT !.actual_activity = v])

Next ==
    \/ SetDirectMaterials /\ UNCHANGED aux
    \/ SetDirectLabour /\ UNCHANGED aux
    \/ SetBudgetedOh /\ UNCHANGED aux
    \/ SetBudgetedActivity /\ UNCHANGED aux
    \/ SelectActivityType /\ UNCHANGED aux
    \/ SetActivityPerUnit /\ UNCHANGED aux
    \/ SetClosingInventory /\ UNCHANGED aux
    \/ SetActualOh /\ UNCHANGED aux
    \/ SetActualActivity /\ UNCHANGED aux

\* the application: a session of widget changes, each followed by a run
Spec == Init /\ [][Next]_vars

(***************************************************************************)
(* The same session with the history variable: before any change the       *)
(* evaluation on display may be kept in snap.  The values entered are      *)
(* narrowed to HistoryWidgets, since every pair of evaluations is compared.*)
(***************************************************************************)
Evaluation == [widgets |-> widgets, ns |-> ns, page |-> page]

KeepEvaluation ==
    /\ snap' \in {snap, Evaluation}
    /\ UNCHANGED decomposition

HistoryWidgets ==
    {w \in [direct_materials  : {Defaults.direct_materials},
            direct_labour     : {Defaults.direct_labour},
            budgeted_oh       : {1, 120000},
            budgeted_activity : {3, 30000},
            activity_type     : ActivityTypes,
            activity_per_unit : {Defaults.activity_per_unit},
            closing_inventory : {Defaults.closing_inventory},
            actual_oh         : {0, 125000},
            actual_activity   : {Defaults.actual_activity}] : TRUE}

NextHistory ==
    \/ SetDirectMaterials /\ widgets' \in HistoryWidgets /\ KeepEvaluation
    \/ SetDirectLabour /\ widgets' \in HistoryWidgets /\ KeepEvaluation
    \/ SetBudgetedOh /\ widgets' \in HistoryWidgets /\ KeepEvaluation
    \/ SetBudgetedActivity /\ widgets' \in HistoryWidgets /\ KeepEvaluation
    \/ SelectActivityType /\ widgets' \in HistoryWidgets /\ KeepEvaluation
    \/ SetActivityPerUnit /\ widgets' \in HistoryWidgets /\ KeepEvaluation
    \/ SetClosingInventory /\ widgets' \in HistoryWidgets /\ KeepEvaluation
    \/ SetActualOh /\ widgets' \in HistoryWidgets /\ KeepEvaluation
    \/ SetActualActivity /\ widgets' \in HistoryWidgets /\ KeepEvaluation

SpecHistory == Init /\ [][NextHistory]_vars

(***************************************************************************)
(* The calculation as a function of its inputs (the calculation contract): *)
(* any non-negative inputs, a zero budgeted activity level included, are   *)
(* handed to the calculation block and to the variance decomposition.      *)
(***************************************************************************)
NothingAssigned ==
    [prime_cost               |-> Unbound,
     oar                      |-> Unbound,
     absorbed_oh_per_unit     |-> Unbound,
     total_full_cost_per_unit |-> Unbound,
     total_inventory_value    |-> Unbound,
     absorbed_oh_total        |-> Unbound,
     over_under_absorption    |-> Unbound]

CalcInputs ==
    [direct_materials  : {Defaults.direct_materials},
     direct_labour     : {Defaults.direct_labour},
     budgeted_oh       : (0..MaxOverheads) \cup {120000},
     budgeted_activity : (0..MaxActivity) \cup {30000},
     activity_type     : ActivityTypes,
     activity_per_unit : {Decimal(15, 10), Decimal(1, 10)},
     closing_inventory : {0, 1000},
     actual_oh         : (0..MaxOverheads) \cup {125000},
     actual_activity   : (0..MaxActivity) \cup {31000}]

InitCalc ==
    /\ widgets \in CalcInputs
    /\ ns = NothingAssigned
    /\ page = {}
    /\ decomposition = Unbound
    /\ snap = Unbound

Evaluate ==
    /\ page = {}
    /\ Rerun(widgets)
    /\ UNCHANGED aux

\* with units as the activity basis the budgeted and actual activity levels
\* are the budgeted and actual units
Decompose ==
    /\ decomposition = Unbound
    /\ widgets.activity_type = "Units Produced"
    /\ decomposition' = computeVarianceDecomposition(widgets.budgeted_oh,
                            widgets.actual_oh, widgets.budgeted_activity,
                            widgets.actual_activity)
    /\ UNCHANGED <<widgets, ns, page, snap>>

NextCalc == Evaluate \/ Decompose

SpecCalc == InitCalc /\ [][NextCalc]_vars

(***************************************************************************)
(* Properties.                                                             *)
(***************************************************************************)
\* the script has run on the inputs
Evaluated == page # {}

\* the run went through the try block
Completed == Evaluated /\ ns.over_under_absorption # Unbound

\* x * b = a in exact arithmetic, for a float x >= 0 and naturals a, b
ExactlyQuotient(x, a, b) ==
    IF FIsZero(x) THEN a = 0
    ELSE /\ x.sign = 0
         /\ IF x.exp >= 0
            THEN BigMul(BigShl(x.man, x.exp), BigFromNat(b)) = BigFromNat(a)
            ELSE BigMul(x.man, BigFromNat(b)) = BigShl(BigFromNat(a), -x.exp)

\* |x * b - a| <= b * ulp(x) / 2 in exact arithmetic, for a float x >= 0 of
\* at most Precision significant bits and naturals a, b: x is a / b rounded
\* to within half a unit in the last place.  With u the exponent of ulp(x),
\* both sides are scaled by 2^-u (u <= 0) or taken as they are (u > 0).
WithinHalfUlp(x, a, b) ==
    IF FIsZero(x) THEN a = 0
    ELSE LET len == BitLen(x.man)
             u   == x.exp + len - Precision
             up  == IF u > 0 THEN u ELSE 0
             dn  == IF u < 0 THEN -u ELSE 0
             xb  == BigMul(BigShl(x.man, Precision - len + up), BigFromNat(b))
             as  == BigShl(BigFromNat(a), dn)
             df  == IF BigCmp(xb, as) >= 0 THEN BigSub(xb, as) ELSE BigSub(as, xb)
         IN  /\ x.sign = 0
             /\ len <= Precision
             /\ BigCmp(BigShl(df, 1), BigShl(BigFromNat(b), up)) <= 0

\* C1 as stated: the OAR the calculation produces times the budgeted
\* activity is exactly the budgeted overheads, and the OAR is not negative.
C1_OarTimesActivityIsOverheads ==
    Completed =>
        /\ ExactlyQuotient(ns.oar, widgets.budgeted_oh, widgets.budgeted_activity)
        /\ ~FIsNeg(ns.oar)

\* C1 amended: the OAR is budgetedOverheads / budgetedActivity rounded to a
\* float (within half a unit in the last place of the quotient); it is the
\* quotient exactly whenever budgetedActivity divides budgetedOverheads;
\* and it is not negative.
C1_OarIsRoundedQuotient ==
    Completed =>
        /\ WithinHalfUlp(ns.oar, widgets.budgeted_oh, widgets.budgeted_activity)
        /\ widgets.budgeted_oh % widgets.budgeted_activity = 0 =>
               ExactlyQuotient(ns.oar, widgets.budgeted_oh, widgets.budgeted_activity)
        /\ ~FIsNeg(ns.oar)

\* a run produced an OAR that is a rounded, not an exact, quotient
C1_Witness ==
    /\ Completed
    /\ widgets.budgeted_oh > 0
    /\ ~ExactlyQuotient(ns.oar, widgets.budgeted_oh, widgets.budgeted_activity)

\* C2: with a budgeted activity of 0 the division raises for every value of
\* the budgeted overheads, 0 included, and the run yields no numeric rate.
C2_ZeroActivityRaises ==
    (Evaluated /\ widgets.budgeted_activity = 0) =>
        /\ Oar(widgets.budgeted_oh, widgets.budgeted_activity) = ZeroDivisionError
        /\ ns.oar = Unbound
        /\ "oar_metric" \notin page
        /\ "validation_error" \in page

\* a run on budgeted overheads 0 and budgeted activity 0
C2_Witness ==
    /\ Evaluated
    /\ widgets.budgeted_activity = 0
    /\ widgets.budgeted_oh = 0
    /\ "validation_error" \in page

\* C3: a run in which the division raises ends showing the validation
\* message, and a run that shows it has produced and displayed none of the
\* downstream figures.
C3_ErrorWithholdsFigures ==
    /\ (Evaluated /\ widgets.budgeted_activity = 0) => "validation_error" \in page
    /\ "validation_error" \in page =>
           /\ page \cap DownstreamElements = {}
           /\ \A n \in DownstreamNames : ns[n] = Unbound
           /\ widgets.budgeted_activity = 0

\* a run on positive budgeted overheads that ended in the error state
C3_Witness ==
    /\ "validation_error" \in page
    /\ widgets.budgeted_oh > 0
    /\ widgets.actual_activity > 0

\* the decomposition and the calculation have both acted, without error
Decomposed == decomposition # Unbound /\ decomposition # DivisionByZero

C5_VarianceAndSign ==
    Completed =>
        /\ ns.over_under_absorption =
               FSub(FMul(FromInt(widgets.actual_activity), ns.oar),
                    FromInt(widgets.actual_oh))
        /\ Cardinality(page \cap AbsorptionMessages) = 1
        /\ "over_absorbed" \in page <=> FIsPos(ns.over_under_absorption)
        /\ "under_absorbed" \in page <=> FIsNeg(ns.over_under_absorption)
        /\ "no_over_under" \in page <=> FIsZero(ns.over_under_absorption)

\* a run whose absorbed overheads equal positive actual overheads
C5_Witness ==
    /\ Completed
    /\ widgets.actual_oh > 0
    /\ "no_over_under" \in page

\* C6: an evaluation on the same inputs as an earlier one of the session
\* has the same outputs, whatever ran in between.
C6_SameInputsSameOutputs ==
    (snap # Unbound /\ snap.widgets = widgets) =>
        /\ snap.ns = ns
        /\ snap.page = page

\* the inputs of a kept evaluation were left, and entered again later
C6_Witness ==
    /\ snap # Unbound
    /\ snap.widgets = widgets
    /\ widgets.budgeted_oh # Defaults.budgeted_oh
    /\ widgets.budgeted_activity # Defaults.budgeted_activity
    /\ widgets.activity_type # Defaults.activity_type

\* the widgets hold the reference inputs
ReferenceInputs ==
    /\ widgets.direct_materials = Decimal(1000, 100)
    /\ widgets.direct_labour = Decimal(1500, 100)
    /\ widgets.budgeted_oh = 120000
    /\ widgets.budgeted_activity = 30000
    /\ widgets.activity_per_unit = Decimal(15, 10)
    /\ widgets.closing_inventory = 1000
    /\ widgets.actual_activity = 31000
    /\ widgets.actual_oh = 125000

\* C7: on the reference inputs a run yields prime cost 25.00, OAR 4.00,
\* absorbed overhead per unit 6.00, full cost per unit 31.00, inventory
\* value 31000.00, absorbed total 124000.00 and variance -1000.00, reported
\* as under-absorbed.
C7_ReferenceFigures ==
    ReferenceInputs =>
        /\ ns.prime_cost = Decimal(2500, 100)
        /\ ns.oar = Decimal(400, 100)
        /\ ns.absorbed_oh_per_unit = Decimal(600, 100)
        /\ ns.total_full_cost_per_unit = Decimal(3100, 100)
        /\ ns.total_inventory_value = Decimal(3100000, 100)
        /\ ns.absorbed_oh_total = Decimal(12400000, 100)
        /\ ns.over_under_absorption = FNeg(Decimal(100000, 100))
        /\ page \cap AbsorptionMessages = {"under_absorbed"}

\* the reference inputs were entered again under another activity type
C7_Witness ==
    /\ ReferenceInputs
    /\ Completed
    /\ widgets.activity_type = "Units Produced"

\* C8: each variance of the decomposition carries exactly one tag,
\* favourable for a value >= 0 and adverse for one < 0; actual spend below
\* budget is favourable, actual output above budget is favourable; and the
\* decomposition fails with DivisionByZero exactly when budgetedUnits is 0.
C8_VarianceTags ==
    decomposition # Unbound =>
        /\ decomposition = DivisionByZero <=> widgets.budgeted_activity = 0
        /\ decomposition # DivisionByZero =>
               /\ decomposition.expenditureTag =
                      (IF FIsNeg(decomposition.expenditureVariance)
                       THEN "adverse" ELSE "favourable")
               /\ decomposition.volumeTag =
                      (IF FIsNeg(decomposition.volumeVariance)
                       THEN "adverse" ELSE "favourable")
               /\ widgets.actual_oh < widgets.budgeted_oh =>
                      decomposition.expenditureTag = "favourable"
               /\ widgets.actual_oh = widgets.budgeted_oh =>
                      decomposition.expenditureTag = "favourable"
               /\ widgets.actual_activity > widgets.budgeted_activity =>
                      decomposition.volumeTag = "favourable"

\* a decomposition with spend on budget and output above budget
C8_Witness ==
    /\ Decomposed
    /\ widgets.actual_oh = widgets.budgeted_oh
    /\ widgets.budgeted_oh > 0
    /\ widgets.actual_activity > widgets.budgeted_activity
    /\ decomposition.volumeTag = "favourable"

\* C9: the inventory value is closingInventory * (materials + labour
\* + OAR * activityPerUnit); prime cost, absorbed overhead per unit, full
\* cost per unit and inventory value are >= 0; the full cost is at least the
\* prime cost; and no closing inventory gives an inventory value of 0.
C9_InventoryValue ==
    Completed =>
        /\ ns.total_inventory_value =
               FMul(FromInt(widgets.closing_inventory),
                    FAdd(FAdd(widgets.direct_materials, widgets.direct_labour),
                         FMul(ns.oar, widgets.activity_per_unit)))
        /\ ~FIsNeg(ns.prime_cost)
        /\ ~FIsNeg(ns.absorbed_oh_per_unit)
        /\ ~FIsNeg(ns.total_full_cost_per_unit)
        /\ ~FIsNeg(ns.total_inventory_value)
        /\ FGeq(ns.total_full_cost_per_unit, ns.prime_cost)
        /\ widgets.closing_inventory = 0 => FIsZero(ns.total_inventory_value)

\* a run with overhead absorbed at a rounded rate and no closing inventory
C9_Witness ==
    /\ Completed
    /\ widgets.closing_inventory = 0
    /\ FIsPos(ns.absorbed_oh_per_unit)
    /\ ~ExactlyQuotient(ns.oar, widgets.budgeted_oh, widgets.budgeted_activity)

\* C10: within the bounds the widgets enforce no run reaches the error
\* state: the division succeeds and the run goes through to the
\* over/under-absorption result.
C10_NoErrorWithinWidgetBounds ==
    /\ widgets.budgeted_activity >= BudgetedActivityMin
    /\ "validation_error" \notin page
    /\ ns.oar # Unbound
    /\ ns.over_under_absorption # Unbound
    /\ page \cap AbsorptionMessages # {}

\* a run on the least budgeted activity the widget accepts
C10_Witness ==
    /\ widgets.budgeted_activity = BudgetedActivityMin
    /\ widgets.budgeted_oh = 0
    /\ Completed

=============================================================================
